---- MODULE Spec2Model ----
(***************************************************************************)
(* Findings normalisation and risk scoring of the security-scripts tools:  *)
(*   generate_report_FULL.py  the report generator run as a script         *)
(*                            (extraction, tallies, sort, score, summary), *)
(*   generate_report.py       SecurityReportGenerator (summary driven),    *)
(*   security_scan.py         SecurityScanner.calculate_summary.           *)
(*                                                                         *)
(* Representation.  A JSON object is a record; a key the object does not   *)
(* carry holds Absent (severity tokens) or NoText (free text).  Severity   *)
(* tokens are strings; free text (paths, messages, ids) is a sequence of   *)
(* code points so that slicing and lexicographic comparison are computed.  *)
(* A risk score is kept in tenths (19 is 1.9): every score of the code is  *)
(* an integer divided by 10.0.                                             *)
(***************************************************************************)
EXTENDS Integers, Sequences, FiniteSets, TLC

\* ------------------------------------------------------------------ bounds
\* Raw records (well-formed or not) over the three artifacts of one run.
MaxRecords == 2
\* Counts of the tallies the risk scorers are applied to.
MaxCritical == 30
MaxHigh == 3
MaxMedium == 5
\* Findings of a tally that the score does not weigh (low, info, uncounted).
MaxMinor == 1

\* ------------------------------------------------------------ JSON helpers
Absent == "<absent>"
NoText == <<-1>>
\* A list element that is not a JSON object: every .get on it raises.
BadRecord == [bad |-> TRUE]

IsBad(rec) == "bad" \in DOMAIN rec

\* Some record of the list is no object
HasBad(seq) == \E i \in 1..Len(seq) : IsBad(seq[i])

\* dict.get(key, default) for a severity token
Get(obj, key, default) == IF obj[key] = Absent THEN default ELSE obj[key]
\* dict.get(key, default) for free text
GetText(obj, key, default) == IF obj[key] = NoText THEN default ELSE obj[key]

Min(a, b) == IF a <= b THEN a ELSE b

\* s[:n]
Take(s, n) == SubSeq(s, 1, Min(Len(s), n))

\* str.upper() / str.lower() on the severity tokens the inputs carry
Upper(s) ==
    CASE s = "error" -> "ERROR"
      [] s = "warning" -> "WARNING"
      [] s = "info" -> "INFO"
      [] s = "critical" -> "CRITICAL"
      [] s = "high" -> "HIGH"
      [] s = "medium" -> "MEDIUM"
      [] s = "low" -> "LOW"
      [] s = "total" -> "TOTAL"
      [] s = "unknown" -> "UNKNOWN"
      [] OTHER -> s

Lower(s) ==
    CASE s = "ERROR" -> "error"
      [] s = "WARNING" -> "warning"
      [] s = "INFO" -> "info"
      [] s = "CRITICAL" -> "critical"
      [] s = "HIGH" -> "high"
      [] s = "MEDIUM" -> "medium"
      [] s = "LOW" -> "low"
      [] s = "TOTAL" -> "total"
      [] s = "UNKNOWN" -> "unknown"
      [] OTHER -> s

\* ------------------------------------------------------------------ texts
\* Code points of the literals the extractors use.
TxtUnknown == <<85, 110, 107, 110, 111, 119, 110>>
TxtNoDescription == <<78, 111, 32, 100, 101, 115, 99, 114, 105, 112, 116, 105, 111, 110>>
TxtSecretDetected == <<83, 101, 99, 114, 101, 116, 32, 100, 101, 116, 101, 99, 116, 101, 100>>
TxtSecretHidden == <<83, 101, 99, 114, 101, 116, 32, 102, 111, 117, 110, 100, 32, 45, 32, 104, 105, 100, 100, 101, 110, 32, 102, 111, 114, 32, 115, 101, 99, 117, 114, 105, 116, 121>>
TxtDash == <<32, 45, 32>>
TxtVersion == <<86, 101, 114, 115, 105, 111, 110, 58, 32>>
TxtFix == <<32, 124, 32, 70, 105, 120, 58, 32>>
TxtQuestion == <<63>>
TxtNoFix == <<78, 111, 32, 102, 105, 120, 32, 97, 118, 97, 105, 108, 97, 98, 108, 101>>
TxtVerified == <<86, 101, 114, 105, 102, 105, 101, 100, 58, 32>>
TxtTrue == <<84, 114, 117, 101>>
TxtFalse == <<70, 97, 108, 115, 101>>

\* str(bool) as '{}'.format prints it
FormatBool(b) == IF b THEN TxtTrue ELSE TxtFalse

\* ----------------------------------------------------------------- tallies
Severities == {"CRITICAL", "HIGH", "MEDIUM", "LOW", "INFO"}
Tools == {"Semgrep", "Trivy", "TruffleHog"}

ZeroTally == [critical |-> 0, high |-> 0, medium |-> 0, low |-> 0, info |-> 0, total |-> 0]

\* `if sev_lower in stats: stats[sev_lower] += 1` then `stats['total'] += 1`
CountSeverity(tally, severity) ==
    LET sev_lower == Lower(severity)
        bumped == IF sev_lower \in DOMAIN tally
                  THEN [tally EXCEPT ![sev_lower] = @ + 1]
                  ELSE tally
    IN [bumped EXCEPT !.total = @ + 1]

\* stats['critical'] += 1; stats['total'] += 1 (TruffleHog block)
CountCritical(tally) == [tally EXCEPT !.critical = @ + 1, !.total = @ + 1]

\* -------------------------------------------------------------- extractors
NoLine == -1
NoList == <<[absent |-> TRUE]>>

GetNum(obj, key, default) == IF obj[key] = NoLine THEN default ELSE obj[key]
GetList(obj, key) == IF obj[key] = NoList THEN <<>> ELSE obj[key]

\* Semgrep: ERROR -> HIGH, WARNING -> MEDIUM, every other token is kept
SemgrepSeverity(result) ==
    LET severity == Upper(Get(result, "severity", "INFO"))
    IN IF severity = "ERROR" THEN "HIGH"
       ELSE IF severity = "WARNING" THEN "MEDIUM"
       ELSE severity

SemgrepIssue(result) ==
    [tool |-> "Semgrep",
     type |-> "Code Security",
     severity |-> SemgrepSeverity(result),
     file |-> Take(GetText(result, "path", TxtUnknown), 80),
     line |-> GetNum(result, "line", 0),
     title |-> GetText(result, "check_id", TxtUnknown),
     details |-> Take(GetText(result, "message", TxtNoDescription), 200)]

TrivyVulnIssue(result, vuln) ==
    [tool |-> "Trivy",
     type |-> "Vulnerability",
     severity |-> Upper(Get(vuln, "Severity", "UNKNOWN")),
     file |-> Take(GetText(result, "Target", TxtUnknown), 80),
     line |-> 0,
     title |-> GetText(vuln, "PkgName", TxtUnknown) \o TxtDash
               \o GetText(vuln, "VulnerabilityID", <<>>),
     details |-> TxtVersion \o GetText(vuln, "InstalledVersion", TxtQuestion)
                 \o TxtFix \o GetText(vuln, "FixedVersion", TxtNoFix)]

TrivyMisconfigIssue(result, misconfig) ==
    [tool |-> "Trivy",
     type |-> "Misconfiguration",
     severity |-> Upper(Get(misconfig, "Severity", "UNKNOWN")),
     file |-> Take(GetText(result, "Target", TxtUnknown), 80),
     line |-> GetNum(misconfig, "StartLine", 0),
     title |-> GetText(misconfig, "ID", TxtUnknown) \o TxtDash
               \o GetText(misconfig, "Title", <<>>),
     details |-> Take(GetText(misconfig, "Description", TxtNoDescription), 200)]

TrivySecretIssue(result, secret) ==
    [tool |-> "Trivy",
     type |-> "Secret",
     severity |-> Upper(Get(secret, "Severity", "HIGH")),
     file |-> Take(GetText(result, "Target", TxtUnknown), 80),
     line |-> GetNum(secret, "StartLine", 0),
     title |-> GetText(secret, "Title", TxtSecretDetected),
     details |-> GetText(secret, "RuleID", TxtSecretHidden)]

TrivyIssue(item) ==
    IF item.sub = "Vulnerabilities" THEN TrivyVulnIssue(item.result, item.rec)
    ELSE IF item.sub = "Misconfigurations" THEN TrivyMisconfigIssue(item.result, item.rec)
    ELSE TrivySecretIssue(item.result, item.rec)

\* Faulty variant: the details quote the secret found
TruffleHogIssueQuoting(secret) ==
    [tool |-> "TruffleHog",
     type |-> "Secret",
     severity |-> "CRITICAL",
     file |-> Take(GetText(secret, "file", TxtUnknown), 80),
     line |-> GetNum(secret, "line", 0),
     title |-> GetText(secret, "DetectorName", TxtSecretDetected),
     details |-> TxtVerified \o FormatBool(secret.Verified) \o secret.Raw]

TruffleHogIssue(secret) ==
    [tool |-> "TruffleHog",
     type |-> "Secret",
     severity |-> "CRITICAL",
     file |-> Take(GetText(secret, "file", TxtUnknown), 80),
     line |-> GetNum(secret, "line", 0),
     title |-> GetText(secret, "DetectorName", TxtSecretDetected),
     details |-> TxtVerified \o FormatBool(secret.Verified)]

\* The order in which the nested Trivy loops visit the records of one target:
\* Vulnerabilities, then Misconfigurations, then Secrets.  A target that is
\* not an object raises at its first .get.
TargetWork(result) ==
    IF IsBad(result) THEN << [sub |-> "raise", rec |-> BadRecord] >>
    ELSE LET Items(k) == [i \in 1..Len(GetList(result, k)) |->
                            [sub |-> k, result |-> result, rec |-> GetList(result, k)[i]]]
         IN Items("Vulnerabilities") \o Items("Misconfigurations") \o Items("Secrets")

RECURSIVE TrivyWork(_)
TrivyWork(results) ==
    IF results = <<>> THEN <<>>
    ELSE TargetWork(Head(results)) \o TrivyWork(Tail(results))

\* An item of the Trivy loops on which the extraction raises
TrivyRaises(item) == item.sub = "raise" \/ IsBad(item.rec)

\* ------------------------------------------------------------------- sort
severity_order(severity) ==
    CASE severity = "CRITICAL" -> 0
      [] severity = "HIGH" -> 1
      [] severity = "MEDIUM" -> 2
      [] severity = "LOW" -> 3
      [] severity = "INFO" -> 4
      [] OTHER -> 5

\* 'Semgrep' < 'Trivy' < 'TruffleHog' as Python compares str ('i' < 'u')
ToolRank(tool) ==
    CASE tool = "Semgrep" -> 0
      [] tool = "Trivy" -> 1
      [] OTHER -> 2

\* a < b for str, by code points
RECURSIVE TextLess(_, _)
TextLess(a, b) ==
    IF b = <<>> THEN FALSE
    ELSE IF a = <<>> THEN TRUE
    ELSE IF Head(a) # Head(b) THEN Head(a) < Head(b)
    ELSE TextLess(Tail(a), Tail(b))

\* Faulty variant: the key without the file
KeyLessNoFile(x, y) ==
    LET rx == severity_order(x.severity)
        ry == severity_order(y.severity)
    IN IF rx # ry THEN rx < ry
       ELSE ToolRank(x.tool) < ToolRank(y.tool)

\* key(x) < key(y) for key = (severity_order.get(severity, 5), tool, file)
KeyLess(x, y) ==
    LET rx == severity_order(x.severity)
        ry == severity_order(y.severity)
    IN IF rx # ry THEN rx < ry
       ELSE IF x.tool # y.tool THEN ToolRank(x.tool) < ToolRank(y.tool)
       ELSE TextLess(x.file, y.file)

\* Faulty variant: x placed in front of the elements with an equal key
RECURSIVE InsertBeforeEqual(_, _)
InsertBeforeEqual(sorted, x) ==
    IF sorted = <<>> THEN <<x>>
    ELSE IF ~KeyLess(Head(sorted), x) THEN <<x>> \o sorted
    ELSE <<Head(sorted)>> \o InsertBeforeEqual(Tail(sorted), x)

\* x placed behind every element whose key is not greater (a stable insert)
RECURSIVE InsertStable(_, _)
InsertStable(sorted, x) ==
    IF sorted = <<>> THEN <<x>>
    ELSE IF KeyLess(x, Head(sorted)) THEN <<x>> \o sorted
    ELSE <<Head(sorted)>> \o InsertStable(Tail(sorted), x)

\* list.sort(key=...): the stable sort of the list
RECURSIVE SortFrom(_, _)
SortFrom(sorted, rest) ==
    IF rest = <<>> THEN sorted
    ELSE SortFrom(InsertStable(sorted, Head(rest)), Tail(rest))

SortIssues(issues) == SortFrom(<<>>, issues)

\* ------------------------------------------------------------- risk score
\* round(n / d, 1) in tenths: round half to even, as Python 3 rounds
Round1(n, d) ==
    LET q == (n * 10) \div d
        r == (n * 10) % d
    IN IF 2 * r > d THEN q + 1
       ELSE IF 2 * r < d THEN q
       ELSE IF q % 2 = 0 THEN q ELSE q + 1

\* Faulty variant: the high count weighed 3 instead of 2
WeightedSumHighThree(critical, high, medium) == critical * 4 + high * 3 + medium * 1

WeightedSum(critical, high, medium) == critical * 4 + high * 2 + medium * 1

\* Faulty variant: the weighted sum averaged over the findings instead of capped
RiskScoreFullAveraged(tally) ==
    IF tally.total > 0
    THEN Min(100, (WeightedSum(tally.critical, tally.high, tally.medium) * 10)
                     \div tally.total)
    ELSE 0

\* generate_report_FULL.py: min(10.0, weighted / 10.0) or 0.0, in tenths
RiskScoreFull(tally) ==
    IF tally.total > 0
    THEN Min(100, WeightedSum(tally.critical, tally.high, tally.medium))
    ELSE 0

\* Faulty variant: the levels cut at the thresholds of generate_report.py
RiskLevelFullHighBar(score) ==
    IF score >= 100 THEN "CRITICAL"
    ELSE IF score >= 70 THEN "HIGH"
    ELSE IF score >= 30 THEN "MEDIUM"
    ELSE "LOW"

\* Faulty variant: MEDIUM begins at 4.0
RiskLevelFullLateMedium(score) ==
    IF score >= 70 THEN "CRITICAL"
    ELSE IF score >= 50 THEN "HIGH"
    ELSE IF score >= 40 THEN "MEDIUM"
    ELSE "LOW"

RiskLevelFull(score) ==
    IF score >= 70 THEN "CRITICAL"
    ELSE IF score >= 50 THEN "HIGH"
    ELSE IF score >= 30 THEN "MEDIUM"
    ELSE "LOW"

\* ------------------------------------------------------- the input space
\* Raw severity tokens the artifacts carry (Absent: the key is missing).
SemgrepTokens == {"error", "total", Absent}
TrivyTokens == {"low", Absent}

\* File paths of Semgrep results ('b', 'a')
SemgrepPaths == {<<98>>, <<97>>}

SemgrepResults ==
    {[path |-> p, line |-> 7, check_id |-> <<114>>, severity |-> s,
      message |-> <<109>>] : p \in SemgrepPaths, s \in SemgrepTokens}
    \cup {BadRecord}

TrivyVulns ==
    {[Severity |-> s, PkgName |-> <<112>>, VulnerabilityID |-> <<118>>,
      InstalledVersion |-> <<49>>, FixedVersion |-> NoText] : s \in TrivyTokens}
    \cup {BadRecord}

TrivyMisconfigs ==
    {[Severity |-> s, ID |-> <<105>>, Title |-> <<116>>, StartLine |-> NoLine,
      Description |-> <<100>>] : s \in TrivyTokens}

TrivySecrets ==
    {[Severity |-> s, Title |-> NoText, RuleID |-> <<114>>, StartLine |-> 3,
      Match |-> <<115>>] : s \in TrivyTokens}

TruffleHogSecrets ==
    {[file |-> <<102>>, line |-> 5, DetectorName |-> <<100>>, Verified |-> FALSE,
      Raw |-> <<115>>]} \cup {BadRecord}

SeqsOfLen(S, n) == [1..n -> S]

\* One Trivy target holding k records over its three sub-lists; a sub-list
\* without records is a missing key.
SubList(S, n) == IF n = 0 THEN {NoList} ELSE SeqsOfLen(S, n)

TargetsOfSize(k) ==
    UNION {UNION {{[Target |-> <<116>>, Vulnerabilities |-> v,
                    Misconfigurations |-> m, Secrets |-> s] :
                      v \in SubList(TrivyVulns, i),
                      m \in SubList(TrivyMisconfigs, j),
                      s \in SubList(TrivySecrets, k - i - j)} :
                  j \in 0..(k - i)} : i \in 0..k}
    \cup (IF k = 1 THEN {BadRecord} ELSE {})

RECURSIVE TrivyResultsOfSize(_)
TrivyResultsOfSize(n) ==
    IF n = 0 THEN {<<>>}
    ELSE UNION {{<<t>> \o rest : t \in TargetsOfSize(k),
                                 rest \in TrivyResultsOfSize(n - k)} : k \in 1..n}

\* shape: what is at the artifact's path.  "absent": no file; "unparsable":
\* json.load raises; "wrongshape": the document is no object (a .get on it
\* raises); "object": the expected object.  For TruffleHog "array" is the
\* bare list of records that run_trufflehog writes.
SemgrepArtifacts(n) ==
    IF n = 0
    THEN {[shape |-> sh, results |-> <<>>] :
             sh \in {"absent", "unparsable", "wrongshape", "object"}}
    ELSE {[shape |-> "object", results |-> r] : r \in SeqsOfLen(SemgrepResults, n)}

TrivyArtifacts(n) ==
    IF n = 0
    THEN {[shape |-> sh, Results |-> <<>>] :
             sh \in {"absent", "unparsable", "wrongshape", "object"}}
    ELSE {[shape |-> "object", Results |-> r] : r \in TrivyResultsOfSize(n)}

TruffleHogArtifacts(n) ==
    IF n = 0
    THEN {[shape |-> sh, secrets |-> <<>>] :
             sh \in {"absent", "unparsable", "object", "array"}}
    ELSE {[shape |-> sh, secrets |-> r] :
             sh \in {"object", "array"}, r \in SeqsOfLen(TruffleHogSecrets, n)}

\* ------------------------------------------------ generate_report_FULL.py
VARIABLES
    semgrep_json,      \* security-reports/semgrep.json
    trivy_json,        \* security-reports/trivy.json
    trufflehog_json,   \* security-reports/trufflehog.json
    has_reportlab,     \* install_package('reportlab')
    pc,                \* the statement the script is at
    idx,               \* position of the running loop in its list
    issues_found,
    stats,
    tool_stats,
    risk_score,        \* tenths
    risk_level,
    pdf,               \* security-report.pdf: "none", "full", "fallback"
    summary,           \* summary.json as written, or NoSummary
    \* the risk scorers applied to tallies (specification SpecScore)
    tally,             \* a global tally: the loaded summary / stats
    other,             \* a second tally, scored beside it
    scored,            \* [A, B]: what each generator variant computes for tally
    otherScored,       \* the same for other
    \* security_scan.py, SecurityScanner.calculate_summary (specification SpecScan)
    trivy_fs_json,     \* <output_dir>/trivy-fs.json
    trivy_pkg_json,    \* <output_dir>/trivy-pkg.json
    scanner_summary,   \* summary.json as calculate_summary writes it, or NoSummary
    \* the extractors applied to two records (specification SpecExtract)
    records,           \* [kind, result, first, second]: two raw records
    findings,          \* [first, second]: the issue made of each, or NoFindings
    \* security_scan.py, SecurityScanner.run_all_scans (specification SpecRun)
    app_type,          \* --app-type
    scan_pos,          \* position of the for loop in scans
    invoked,           \* the scans called so far, in call order
    success_count,
    run_result         \* what run_all_scans returned, or Unset

scoreVars == <<tally, other, scored, otherScored>>

scanVars == <<trivy_fs_json, trivy_pkg_json, scanner_summary>>

extractVars == <<records, findings>>

runVars == <<app_type, scan_pos, invoked, success_count, run_result>>

vars == <<semgrep_json, trivy_json, trufflehog_json, has_reportlab, pc, idx,
          issues_found, stats, tool_stats, risk_score, risk_level, pdf, summary,
          tally, other, scored, otherScored,
          trivy_fs_json, trivy_pkg_json, scanner_summary, records, findings,
          app_type, scan_pos, invoked, success_count, run_result>>

inputs == <<semgrep_json, trivy_json, trufflehog_json, has_reportlab>>

NoResult == [scored |-> FALSE]

\* The scorer's variables while the pipeline runs
ScoreIdle ==
    /\ tally = ZeroTally
    /\ other = ZeroTally
    /\ scored = NoResult
    /\ otherScored = NoResult

NoSummary == [written |-> FALSE]
Unset == "<unset>"

\* The scanner's variables while another specification runs
ScanIdle ==
    /\ trivy_fs_json = [shape |-> "absent", Results |-> <<>>]
    /\ trivy_pkg_json = [shape |-> "absent", Results |-> <<>>]
    /\ scanner_summary = NoSummary

NoRecords == [kind |-> "none"]
NoFindings == [extracted |-> FALSE]

\* The extractors' variables while another specification runs
ExtractIdle ==
    /\ records = NoRecords
    /\ findings = NoFindings

\* run_all_scans not called
RunIdle ==
    /\ app_type = "none"
    /\ scan_pos = 1
    /\ invoked = <<>>
    /\ success_count = 0
    /\ run_result = Unset

Init ==
    /\ \E nS \in 0..MaxRecords : \E nT \in 0..(MaxRecords - nS) :
       \E nH \in 0..(MaxRecords - nS - nT) :
          /\ semgrep_json \in SemgrepArtifacts(nS)
          /\ trivy_json \in TrivyArtifacts(nT)
          /\ trufflehog_json \in TruffleHogArtifacts(nH)
    /\ has_reportlab \in BOOLEAN
    /\ pc = "semgrep"
    /\ idx = 1
    /\ issues_found = <<>>
    /\ stats = ZeroTally
    /\ tool_stats = [t \in Tools |-> ZeroTally]
    /\ risk_score = 0
    /\ risk_level = Unset
    /\ pdf = "none"
    /\ summary = NoSummary
    /\ ScoreIdle
    /\ ScanIdle
    /\ ExtractIdle
    /\ RunIdle

\* One well-formed record of a loop: the issue is appended and counted.
Record(tool, issue) ==
    /\ issues_found' = Append(issues_found, issue)
    /\ stats' = CountSeverity(stats, issue.severity)
    /\ tool_stats' = [tool_stats EXCEPT ![tool] = CountSeverity(@, issue.severity)]
    /\ idx' = idx + 1
    /\ UNCHANGED <<inputs, pc, risk_score, risk_level, pdf, summary, scoreVars,
                   scanVars, extractVars,
                   runVars>>

\* Leaving a tool's try block, by its end or by its except clause.
Leave(next) ==
    /\ pc' = next
    /\ idx' = 1
    /\ UNCHANGED <<inputs, issues_found, stats, tool_stats, risk_score,
                   risk_level, pdf, summary, scoreVars,
                   scanVars, extractVars,
                   runVars>>

SemgrepRecord ==
    /\ pc = "semgrep"
    /\ semgrep_json.shape = "object"
    /\ idx <= Len(semgrep_json.results)
    /\ ~IsBad(semgrep_json.results[idx])
    /\ Record("Semgrep", SemgrepIssue(semgrep_json.results[idx]))

\* Faulty variant: an error in the Semgrep block ends the extraction of all tools
SemgrepRaiseAborts ==
    /\ pc = "semgrep"
    /\ \/ semgrep_json.shape \in {"unparsable", "wrongshape"}
       \/ /\ semgrep_json.shape = "object"
          /\ idx <= Len(semgrep_json.results)
          /\ IsBad(semgrep_json.results[idx])
    /\ Leave("sort")

SemgrepRaise ==
    /\ pc = "semgrep"
    /\ \/ semgrep_json.shape \in {"unparsable", "wrongshape"}
       \/ /\ semgrep_json.shape = "object"
          /\ idx <= Len(semgrep_json.results)
          /\ IsBad(semgrep_json.results[idx])
    /\ Leave("trivy")

SemgrepDone ==
    /\ pc = "semgrep"
    /\ \/ semgrep_json.shape = "absent"
       \/ semgrep_json.shape = "object" /\ idx > Len(semgrep_json.results)
    /\ Leave("trivy")

TrivyRecord ==
    /\ pc = "trivy"
    /\ trivy_json.shape = "object"
    /\ idx <= Len(TrivyWork(trivy_json.Results))
    /\ ~TrivyRaises(TrivyWork(trivy_json.Results)[idx])
    /\ Record("Trivy", TrivyIssue(TrivyWork(trivy_json.Results)[idx]))

TrivyRaise ==
    /\ pc = "trivy"
    /\ \/ trivy_json.shape \in {"unparsable", "wrongshape"}
       \/ /\ trivy_json.shape = "object"
          /\ idx <= Len(TrivyWork(trivy_json.Results))
          /\ TrivyRaises(TrivyWork(trivy_json.Results)[idx])
    /\ Leave("trufflehog")

TrivyDone ==
    /\ pc = "trivy"
    /\ \/ trivy_json.shape = "absent"
       \/ trivy_json.shape = "object" /\ idx > Len(TrivyWork(trivy_json.Results))
    /\ Leave("trufflehog")

\* trufflehog_data.get('secrets', []) needs an object: on a list it raises.
TruffleHogRecord ==
    /\ pc = "trufflehog"
    /\ trufflehog_json.shape = "object"
    /\ idx <= Len(trufflehog_json.secrets)
    /\ ~IsBad(trufflehog_json.secrets[idx])
    /\ issues_found' = Append(issues_found, TruffleHogIssue(trufflehog_json.secrets[idx]))
    /\ stats' = CountCritical(stats)
    /\ tool_stats' = [tool_stats EXCEPT !["TruffleHog"] = CountCritical(@)]
    /\ idx' = idx + 1
    /\ UNCHANGED <<inputs, pc, risk_score, risk_level, pdf, summary, scoreVars,
                   scanVars, extractVars,
                   runVars>>

TruffleHogRaise ==
    /\ pc = "trufflehog"
    /\ \/ trufflehog_json.shape \in {"unparsable", "array"}
       \/ /\ trufflehog_json.shape = "object"
          /\ idx <= Len(trufflehog_json.secrets)
          /\ IsBad(trufflehog_json.secrets[idx])
    /\ Leave("sort")

TruffleHogDone ==
    /\ pc = "trufflehog"
    /\ \/ trufflehog_json.shape = "absent"
       \/ trufflehog_json.shape = "object" /\ idx > Len(trufflehog_json.secrets)
    /\ Leave("sort")

\* issues_found.sort(key=...)
Sort ==
    /\ pc = "sort"
    /\ issues_found' = SortIssues(issues_found)
    /\ pc' = "score"
    /\ UNCHANGED <<inputs, idx, stats, tool_stats, risk_score, risk_level, pdf,
                   summary, scoreVars,
                   scanVars, extractVars,
                   runVars>>

\* Risk score and risk level.  Each branch of the level sets risk_level and
\* then calls HexColor, a name that is bound only by the imports made when
\* has_reportlab is true: without them the script ends with a NameError.
ScoreRisk ==
    /\ pc = "score"
    /\ risk_score' = RiskScoreFull(stats)
    /\ risk_level' = RiskLevelFull(risk_score')
    /\ pc' = IF has_reportlab THEN "render" ELSE "crashed"
    /\ UNCHANGED <<inputs, idx, issues_found, stats, tool_stats, pdf, summary,
                   scoreVars, scanVars,
                   extractVars, runVars>>

\* The document is built, or building it raises and the fallback is drawn
\* (the few drawString calls of the fallback are taken not to raise).
RenderFull ==
    /\ pc = "render"
    /\ pdf' = "full"
    /\ pc' = "summary"
    /\ UNCHANGED <<inputs, idx, issues_found, stats, tool_stats, risk_score,
                   risk_level, summary, scoreVars,
                   scanVars, extractVars,
                   runVars>>

RenderFallback ==
    /\ pc = "render"
    /\ pdf' = "fallback"
    /\ pc' = "summary"
    /\ UNCHANGED <<inputs, idx, issues_found, stats, tool_stats, risk_score,
                   risk_level, summary, scoreVars,
                   scanVars, extractVars,
                   runVars>>

\* The summary dict of the report generator, as json.dump writes it
FullSummary(tally_, level, score) ==
    [total |-> tally_.total,
     critical |-> tally_.critical,
     high |-> tally_.high,
     medium |-> tally_.medium,
     low |-> tally_.low,
     info |-> tally_.info,
     risk_level |-> level,
     risk_score |-> Round1(score, 10)]

WriteSummary ==
    /\ pc = "summary"
    /\ summary' = FullSummary(stats, risk_level, risk_score)
    /\ pc' = "done"
    /\ UNCHANGED <<inputs, idx, issues_found, stats, tool_stats, risk_score,
                   risk_level, pdf, scoreVars, scanVars,
                   extractVars, runVars>>

Next ==
    \/ SemgrepRecord \/ SemgrepRaise \/ SemgrepDone
    \/ TrivyRecord \/ TrivyRaise \/ TrivyDone
    \/ TruffleHogRecord \/ TruffleHogRaise \/ TruffleHogDone
    \/ Sort \/ ScoreRisk \/ RenderFull \/ RenderFallback \/ WriteSummary

Spec == Init /\ [][Next]_vars

\* Faulty variant: any critical finding makes the level CRITICAL
CalculateRiskScoreAnyCritical(summary_) ==
    LET score == WeightedSum(summary_.critical, summary_.high, summary_.medium)
        level == IF score >= 100 \/ summary_.critical > 0 THEN "CRITICAL"
                 ELSE IF score >= 70 THEN "HIGH"
                 ELSE IF score >= 30 THEN "MEDIUM"
                 ELSE "LOW"
    IN [score |-> Round1(score, 10), level |-> level, color |-> "#d32f2f"]

\* Faulty variant: the thresholds compared with > instead of >=
CalculateRiskScoreStrict(summary_) ==
    LET score == WeightedSum(summary_.critical, summary_.high, summary_.medium)
        level == IF score > 100 THEN "CRITICAL"
                 ELSE IF score > 70 THEN "HIGH"
                 ELSE IF score > 30 THEN "MEDIUM"
                 ELSE "LOW"
    IN [score |-> Round1(score, 10), level |-> level, color |-> "#d32f2f"]

\* ------------------------------------------------------ the risk scorers
\* generate_report.py, SecurityReportGenerator._calculate_risk_score:
\* the level is taken from the unrounded score, the score is returned rounded.
CalculateRiskScore(summary_) ==
    LET score == WeightedSum(summary_.critical, summary_.high, summary_.medium)
        level == IF score >= 100 THEN "CRITICAL"
                 ELSE IF score >= 70 THEN "HIGH"
                 ELSE IF score >= 30 THEN "MEDIUM"
                 ELSE "LOW"
        color == CASE level = "CRITICAL" -> "#d32f2f"
                   [] level = "HIGH" -> "#f57c00"
                   [] level = "MEDIUM" -> "#fbc02d"
                   [] OTHER -> "#388e3c"
    IN [score |-> Round1(score, 10), level |-> level, color |-> color]

\* generate_report_FULL.py: risk_level and the risk_score the summary carries
FullRisk(tally_) ==
    [score |-> Round1(RiskScoreFull(tally_), 10),
     level |-> RiskLevelFull(RiskScoreFull(tally_))]

Max(a, b) == IF a >= b THEN a ELSE b

\* summary.get(key, default) on the loaded summary.json
SummaryGet(summary_, key, default) ==
    IF key \in DOMAIN summary_ THEN summary_[key] ELSE default

\* What a division by zero leaves in place of a percentage
ZeroDivisionError == -1

\* count / denominator * 100 shown with one decimal, in tenths of a percent;
\* a zero denominator raises
Percent(count, denominator) ==
    IF denominator = 0 THEN ZeroDivisionError
    ELSE Round1(count * 100, denominator)

\* The summary.json a tally is read from by generate_report.py
SummaryJson(tally_) ==
    [total_findings |-> tally_.total, critical |-> tally_.critical,
     high |-> tally_.high, medium |-> tally_.medium, low |-> tally_.low,
     info |-> tally_.info]

\* Faulty variant: the denominator without its floor of 1
BreakdownDenominatorUnfloored(summary_) == SummaryGet(summary_, "total_findings", 1)

\* generate_report.py, add_findings_breakdown: max(summary.get('total_findings', 1), 1)
BreakdownDenominator(summary_) == Max(SummaryGet(summary_, "total_findings", 1), 1)

\* The Percentage column of the Severity Summary Table
FindingsBreakdown(summary_) ==
    [denominator |-> BreakdownDenominator(summary_),
     rows |-> [k \in {"critical", "high", "medium", "low"} |->
                  Percent(SummaryGet(summary_, k, 0), BreakdownDenominator(summary_))]]

\* generate_report_FULL.py, summary_data: stats[k] / max(stats['total'], 1) * 100
StatsDenominator(stats_) == Max(stats_.total, 1)

SummaryData(stats_) ==
    [denominator |-> StatsDenominator(stats_),
     rows |-> [k \in {"critical", "high", "medium", "low", "info"} |->
                  Percent(stats_[k], StatsDenominator(stats_))]]

\* Both variants applied to one tally: risk score and level, and the
\* percentage tables
ScoreBoth(tally_) ==
    [A |-> CalculateRiskScore(tally_),
     B |-> FullRisk(tally_),
     breakdown |-> [A |-> FindingsBreakdown(SummaryJson(tally_)),
                    B |-> SummaryData(tally_)]]

\* generate_report_FULL.py, COMPLETE FINDINGS APPENDIX: the rows of the
\* table of one severity
AppendixRows(issues, severity) == SelectSeq(issues, LAMBDA i : i.severity = severity)

AppendixSeverities == <<"CRITICAL", "HIGH", "MEDIUM", "LOW", "INFO">>

\* generate_report.py, add_severity_definitions: the levels the printed Risk
\* Level Thresholds list for a score (in tenths).  The printed ranges share
\* their end points, so an end point admits both neighbouring levels.
MethodologyLevels(score) ==
    {l \in {"LOW"} : 0 <= score /\ score <= 30}
    \cup {l \in {"MEDIUM"} : 30 <= score /\ score <= 50}
    \cup {l \in {"HIGH"} : 50 <= score /\ score <= 70}
    \cup {l \in {"CRITICAL"} : 70 <= score}

\* The report generator's own variables while another specification runs
ReportIdle ==
    /\ trivy_json = [shape |-> "absent", Results |-> <<>>]
    /\ has_reportlab = TRUE
    /\ pc = "idle"
    /\ idx = 1
    /\ issues_found = <<>>
    /\ stats = ZeroTally
    /\ tool_stats = [t \in Tools |-> ZeroTally]
    /\ risk_score = 0
    /\ risk_level = Unset
    /\ pdf = "none"
    /\ summary = NoSummary

\* The pipeline's variables while the scorers are exercised
PipelineIdle ==
    /\ semgrep_json = [shape |-> "absent", results |-> <<>>]
    /\ trufflehog_json = [shape |-> "absent", secrets |-> <<>>]
    /\ ReportIdle

pipelineVars == <<semgrep_json, trivy_json, trufflehog_json, has_reportlab, pc,
                  idx, issues_found, stats, tool_stats, risk_score, risk_level,
                  pdf, summary>>

CriticalOnly(n) == [ZeroTally EXCEPT !.critical = n, !.total = n]

\* A tally starts at zero, as stats does; the second tally holds criticals only.
ScoreInit ==
    /\ PipelineIdle
    /\ tally = ZeroTally
    /\ other \in {CriticalOnly(n) : n \in 0..MaxCritical}
    /\ scored = NoResult
    /\ otherScored = NoResult
    /\ ScanIdle
    /\ ExtractIdle
    /\ RunIdle

\* The report is generated for the tallies at hand.
ScoreTallies ==
    /\ scored = NoResult
    /\ scored' = ScoreBoth(tally)
    /\ otherScored' = ScoreBoth(other)
    /\ UNCHANGED <<pipelineVars, scanVars, extractVars, runVars, tally, other>>

Minor(tally_) ==
    tally_.total - tally_.critical - tally_.high - tally_.medium

\* One more finding of the given normalised severity is counted (as the
\* extraction loops count it) and the report is generated again.
AddFinding(severity) ==
    /\ scored # NoResult
    /\ tally' = CountSeverity(tally, severity)
    /\ tally'.critical <= MaxCritical
    /\ tally'.high <= MaxHigh
    /\ tally'.medium <= MaxMedium
    /\ Minor(tally') <= MaxMinor
    /\ scored' = ScoreBoth(tally')
    /\ UNCHANGED <<pipelineVars, scanVars, extractVars, runVars, other, otherScored>>

AddCritical == AddFinding("CRITICAL")
AddHigh == AddFinding("HIGH")
AddMedium == AddFinding("MEDIUM")
AddLow == AddFinding("LOW")
AddInfo == AddFinding("INFO")
AddUncounted == AddFinding("UNKNOWN")

ScoreNext ==
    \/ ScoreTallies
    \/ AddCritical \/ AddHigh \/ AddMedium \/ AddLow \/ AddInfo \/ AddUncounted

SpecScore == ScoreInit /\ [][ScoreNext]_vars

\* ------------------------- security_scan.py, SecurityScanner.calculate_summary
ZeroSummary ==
    [total_findings |-> 0, critical |-> 0, high |-> 0, medium |-> 0, low |-> 0,
     info |-> 0, by_tool |-> [k \in {} |-> 0]]

\* d[key] = value on a dict
Put(d, key, value) ==
    [k \in DOMAIN d \cup {key} |-> IF k = key THEN value ELSE d[k]]

\* Faulty variant: the bucket counted without total_findings
BumpBucketOnly(summary_, bucket) == [summary_ EXCEPT ![bucket] = @ + 1]

\* summary[bucket] += 1; summary["total_findings"] += 1
Bump(summary_, bucket) ==
    [summary_ EXCEPT ![bucket] = @ + 1, !.total_findings = @ + 1]

\* Semgrep as the scanner counts it: ERROR critical, WARNING high, else medium
SemgrepBucket(finding) ==
    LET severity == Upper(Get(finding, "severity", "INFO"))
    IN IF severity = "ERROR" THEN "critical"
       ELSE IF severity = "WARNING" THEN "high"
       ELSE "medium"

VulnBucket(vuln) ==
    LET severity == Upper(Get(vuln, "Severity", "UNKNOWN"))
    IN IF severity = "CRITICAL" THEN "critical"
       ELSE IF severity = "HIGH" THEN "high"
       ELSE IF severity = "MEDIUM" THEN "medium"
       ELSE IF severity = "LOW" THEN "low"
       ELSE "info"

\* A counting loop: it stops at the first record that is no object (the
\* .get on it raises into the except clause), keeping what it has counted.
RECURSIVE CountSemgrep(_, _)
CountSemgrep(summary_, findings_) ==
    IF findings_ = <<>> \/ IsBad(Head(findings_)) THEN summary_
    ELSE CountSemgrep(Bump(summary_, SemgrepBucket(Head(findings_))), Tail(findings_))

RECURSIVE CountVulns(_, _)
CountVulns(summary_, vulns) ==
    IF vulns = <<>> \/ IsBad(Head(vulns)) THEN summary_
    ELSE CountVulns(Bump(summary_, VulnBucket(Head(vulns))), Tail(vulns))

\* by_tool["semgrep"] is set before the loop runs
ScanSemgrep(summary_, artifact) ==
    IF artifact.shape # "object" THEN summary_
    ELSE CountSemgrep([summary_ EXCEPT !.by_tool =
                          Put(@, "semgrep", Len(artifact.results))],
                      artifact.results)

\* The vulnerabilities of all targets in the order the nested loops visit
\* them (result.get("Vulnerabilities", []) or []); a target that is no
\* object stands as one record on which the loop raises.
RECURSIVE VulnWork(_)
VulnWork(results) ==
    IF results = <<>> THEN <<>>
    ELSE (IF IsBad(Head(results)) THEN <<BadRecord>>
          ELSE GetList(Head(results), "Vulnerabilities"))
         \o VulnWork(Tail(results))

\* One Trivy file: by_tool[name] = trivy_count is set behind the loops, so
\* only when nothing raised.
ScanTrivy(summary_, artifact, name) ==
    IF artifact.shape # "object" THEN summary_
    ELSE LET work == VulnWork(artifact.Results)
             counted == CountVulns(summary_, work)
         IN IF HasBad(work) THEN counted
            ELSE [counted EXCEPT !.by_tool = Put(@, name, Len(work))]

\* len(findings) of the loaded document: the records of a list, the keys of
\* an object (the one key 'secrets')
DocumentLen(artifact) ==
    IF artifact.shape = "array" THEN Len(artifact.secrets) ELSE 1

ScanTruffleHog(summary_, artifact) ==
    IF artifact.shape \in {"absent", "unparsable"} THEN summary_
    ELSE [summary_ EXCEPT !.by_tool = Put(@, "trufflehog", DocumentLen(artifact)),
                          !.critical = @ + DocumentLen(artifact),
                          !.total_findings = @ + DocumentLen(artifact)]

\* trivy-pkg.json comes from a scan with --scanners vuln: its targets carry
\* vulnerabilities only.
TrivyPkgArtifacts(n) ==
    {a \in TrivyArtifacts(n) :
        \A i \in 1..Len(a.Results) :
           IF IsBad(a.Results[i]) THEN TRUE
           ELSE /\ a.Results[i].Misconfigurations = NoList
                /\ a.Results[i].Secrets = NoList}

ScanInit ==
    /\ \E nS \in 0..MaxRecords : \E nF \in 0..(MaxRecords - nS) :
       \E nP \in 0..(MaxRecords - nS - nF) :
       \E nH \in 0..(MaxRecords - nS - nF - nP) :
          /\ semgrep_json \in SemgrepArtifacts(nS)
          /\ trivy_fs_json \in TrivyArtifacts(nF)
          /\ trivy_pkg_json \in TrivyPkgArtifacts(nP)
          /\ trufflehog_json \in TruffleHogArtifacts(nH)
    /\ scanner_summary = NoSummary
    /\ ReportIdle
    /\ ScoreIdle
    /\ ExtractIdle
    /\ RunIdle

\* The whole of calculate_summary: the four artifacts are counted in turn,
\* each inside its own try block, and the summary is written.
calculate_summary ==
    /\ scanner_summary = NoSummary
    /\ scanner_summary' =
          ScanTruffleHog(
             ScanTrivy(
                ScanTrivy(ScanSemgrep(ZeroSummary, semgrep_json),
                          trivy_fs_json, "trivy-fs"),
                trivy_pkg_json, "trivy-pkg"),
             trufflehog_json)
    /\ UNCHANGED <<pipelineVars, scoreVars, extractVars, runVars, trivy_fs_json,
                   trivy_pkg_json>>

ScanNext == calculate_summary

SpecScan == ScanInit /\ [][ScanNext]_vars

\* ------------------------- security_scan.py, SecurityScanner.run_all_scans
AppTypes == {"java8", "java17", "angular", "gulp"}

\* The list scans: npm audit is appended for the Node.js application types
Scans(app) ==
    <<"run_semgrep", "run_trivy_fs", "run_trivy_pkg", "run_trufflehog">>
    \o (IF app \in {"angular", "gulp"} THEN <<"run_npm_audit">> ELSE <<>>)

\* What a scan that returned True can have left at its output path, and an
\* absent file otherwise.
SemgrepOutputs(ok) ==
    IF ok THEN SemgrepArtifacts(0) \cup SemgrepArtifacts(1)
    ELSE {[shape |-> "absent", results |-> <<>>]}

TrivyFsOutputs(ok) ==
    IF ok THEN TrivyArtifacts(0) \cup TrivyArtifacts(1)
    ELSE {[shape |-> "absent", Results |-> <<>>]}

TrivyPkgOutputs(ok) ==
    IF ok THEN TrivyPkgArtifacts(0) \cup TrivyPkgArtifacts(1)
    ELSE {[shape |-> "absent", Results |-> <<>>]}

\* run_trufflehog dumps the list of the lines it could parse
TruffleHogOutputs(ok) ==
    IF ok THEN {a \in TruffleHogArtifacts(0) \cup TruffleHogArtifacts(1) :
                  a.shape = "array"}
    ELSE {[shape |-> "absent", secrets |-> <<>>]}

RunInit ==
    /\ app_type \in AppTypes
    /\ scan_pos = 1
    /\ invoked = <<>>
    /\ success_count = 0
    /\ run_result = Unset
    /\ semgrep_json = [shape |-> "absent", results |-> <<>>]
    /\ trufflehog_json = [shape |-> "absent", secrets |-> <<>>]
    /\ ScanIdle
    /\ ReportIdle
    /\ ScoreIdle
    /\ ExtractIdle

\* Faulty variant: a scan that fails ends the loop
InvokeStopOnFailure(scan, ok) ==
    /\ scanner_summary = NoSummary
    /\ scan_pos <= Len(Scans(app_type))
    /\ Scans(app_type)[scan_pos] = scan
    /\ invoked' = Append(invoked, scan)
    /\ success_count' = IF ok THEN success_count + 1 ELSE success_count
    /\ scan_pos' = IF ok THEN scan_pos + 1 ELSE Len(Scans(app_type)) + 1
    /\ UNCHANGED <<app_type, run_result, scanner_summary, has_reportlab, pc, idx,
                   issues_found, stats, tool_stats, risk_score, risk_level, pdf,
                   summary, trivy_json, scoreVars, extractVars>>

\* One pass of `for scan in scans: if scan(): success_count += 1`
Invoke(scan, ok) ==
    /\ scanner_summary = NoSummary
    /\ scan_pos <= Len(Scans(app_type))
    /\ Scans(app_type)[scan_pos] = scan
    /\ invoked' = Append(invoked, scan)
    /\ success_count' = IF ok THEN success_count + 1 ELSE success_count
    /\ scan_pos' = scan_pos + 1
    /\ UNCHANGED <<app_type, run_result, scanner_summary, has_reportlab, pc, idx,
                   issues_found, stats, tool_stats, risk_score, risk_level, pdf,
                   summary, trivy_json, scoreVars, extractVars>>

run_semgrep ==
    \E ok \in BOOLEAN :
       /\ Invoke("run_semgrep", ok)
       /\ semgrep_json' \in SemgrepOutputs(ok)
       /\ UNCHANGED <<trivy_fs_json, trivy_pkg_json, trufflehog_json>>

run_trivy_fs ==
    \E ok \in BOOLEAN :
       /\ Invoke("run_trivy_fs", ok)
       /\ trivy_fs_json' \in TrivyFsOutputs(ok)
       /\ UNCHANGED <<semgrep_json, trivy_pkg_json, trufflehog_json>>

run_trivy_pkg ==
    \E ok \in BOOLEAN :
       /\ Invoke("run_trivy_pkg", ok)
       /\ trivy_pkg_json' \in TrivyPkgOutputs(ok)
       /\ UNCHANGED <<semgrep_json, trivy_fs_json, trufflehog_json>>

run_trufflehog ==
    \E ok \in BOOLEAN :
       /\ Invoke("run_trufflehog", ok)
       /\ trufflehog_json' \in TruffleHogOutputs(ok)
       /\ UNCHANGED <<semgrep_json, trivy_fs_json, trivy_pkg_json>>

\* npm-audit.json is read by no later step
run_npm_audit ==
    \E ok \in BOOLEAN :
       /\ Invoke("run_npm_audit", ok)
       /\ UNCHANGED <<semgrep_json, trivy_fs_json, trivy_pkg_json, trufflehog_json>>

\* Behind the loop: calculate_summary, then return success_count == len(scans)
FinishRun ==
    /\ scanner_summary = NoSummary
    /\ scan_pos > Len(Scans(app_type))
    /\ scanner_summary' =
          ScanTruffleHog(
             ScanTrivy(
                ScanTrivy(ScanSemgrep(ZeroSummary, semgrep_json),
                          trivy_fs_json, "trivy-fs"),
                trivy_pkg_json, "trivy-pkg"),
             trufflehog_json)
    /\ run_result' = (success_count = Len(Scans(app_type)))
    /\ UNCHANGED <<pipelineVars, scoreVars, extractVars, trivy_fs_json,
                   trivy_pkg_json, app_type, scan_pos, invoked, success_count>>

RunNext ==
    \/ run_semgrep \/ run_trivy_fs \/ run_trivy_pkg \/ run_trufflehog
    \/ run_npm_audit \/ FinishRun

SpecRun == RunInit /\ [][RunNext]_vars

\* ------------- the scanner's summary and the report over the same artifacts
\* One Trivy document is at hand both as trivy-fs.json and as trivy.json.
PairInit ==
    /\ \E nS \in 0..MaxRecords : \E nT \in 0..(MaxRecords - nS) :
       \E nH \in 0..(MaxRecords - nS - nT) :
          /\ semgrep_json \in SemgrepArtifacts(nS)
          /\ trivy_json \in TrivyArtifacts(nT)
          /\ trufflehog_json \in TruffleHogArtifacts(nH)
    /\ trivy_fs_json = trivy_json
    /\ trivy_pkg_json = [shape |-> "absent", Results |-> <<>>]
    /\ scanner_summary = NoSummary
    /\ has_reportlab \in BOOLEAN
    /\ pc = "semgrep"
    /\ idx = 1
    /\ issues_found = <<>>
    /\ stats = ZeroTally
    /\ tool_stats = [t \in Tools |-> ZeroTally]
    /\ risk_score = 0
    /\ risk_level = Unset
    /\ pdf = "none"
    /\ summary = NoSummary
    /\ ScoreIdle
    /\ ExtractIdle
    /\ RunIdle

\* The scanner writes its summary, then the report generator runs.
PairNext ==
    \/ calculate_summary
    \/ (scanner_summary # NoSummary /\ Next)

SpecPair == PairInit /\ [][PairNext]_vars

\* ------------------------ generate_report_FULL.py: the extractors alone
\* Secret values ('s', 'x')
SecretTexts == {<<115>>, <<120>>}

\* A text of 201 characters, one more than details[:200] keeps
LongText == [i \in 1..201 |-> 120]

TrivySecretRecords ==
    [Severity : TrivyTokens, Title : {NoText, <<116>>},
     RuleID : {<<114>>, NoText, LongText}, StartLine : {3, NoLine},
     Match : SecretTexts]

TruffleHogSecretRecords ==
    [file : {<<102>>, NoText}, line : {5, NoLine}, DetectorName : {<<100>>, NoText},
     Verified : BOOLEAN, Raw : SecretTexts]

\* Two secret records of one loop, of one Trivy target in the Trivy case
SecretPairs ==
    {[kind |-> "Trivy", result |-> [Target |-> <<116>>], first |-> a, second |-> b] :
        a \in TrivySecretRecords, b \in TrivySecretRecords}
    \cup {[kind |-> "TruffleHog", result |-> [Target |-> NoText], first |-> a,
            second |-> b] :
              a \in TruffleHogSecretRecords, b \in TruffleHogSecretRecords}

\* Records of the other three loops, with short, long and missing texts
SemgrepTextRecords ==
    [path : {<<97>>}, line : {7}, check_id : {<<114>>}, severity : {"error"},
     message : {<<109>>, LongText, NoText}]

VulnTextRecords ==
    [Severity : {"low"}, PkgName : {<<112>>}, VulnerabilityID : {<<118>>},
     InstalledVersion : {<<49>>, LongText, NoText}, FixedVersion : {NoText, <<50>>}]

MisconfigTextRecords ==
    [Severity : {"low"}, ID : {<<105>>}, Title : {<<116>>}, StartLine : {NoLine},
     Description : {<<100>>, LongText, NoText}]

TextPairs ==
    {[kind |-> "Semgrep", result |-> [Target |-> NoText], first |-> a, second |-> b] :
        a \in SemgrepTextRecords, b \in SemgrepTextRecords}
    \cup {[kind |-> "Vulnerability", result |-> [Target |-> <<116>>], first |-> a,
            second |-> b] : a \in VulnTextRecords, b \in VulnTextRecords}
    \cup {[kind |-> "Misconfiguration", result |-> [Target |-> <<116>>], first |-> a,
            second |-> b] : a \in MisconfigTextRecords, b \in MisconfigTextRecords}

ExtractInit ==
    /\ records \in SecretPairs \cup TextPairs
    /\ findings = NoFindings
    /\ PipelineIdle
    /\ ScoreIdle
    /\ ScanIdle
    /\ RunIdle

ExtractTrivySecrets ==
    /\ findings = NoFindings
    /\ records.kind = "Trivy"
    /\ findings' = [first |-> TrivySecretIssue(records.result, records.first),
                    second |-> TrivySecretIssue(records.result, records.second)]
    /\ UNCHANGED <<pipelineVars, scoreVars, scanVars, runVars, records>>

ExtractTruffleHogSecrets ==
    /\ findings = NoFindings
    /\ records.kind = "TruffleHog"
    /\ findings' = [first |-> TruffleHogIssue(records.first),
                    second |-> TruffleHogIssue(records.second)]
    /\ UNCHANGED <<pipelineVars, scoreVars, scanVars, runVars, records>>

ExtractSemgrep ==
    /\ findings = NoFindings
    /\ records.kind = "Semgrep"
    /\ findings' = [first |-> SemgrepIssue(records.first),
                    second |-> SemgrepIssue(records.second)]
    /\ UNCHANGED <<pipelineVars, scoreVars, scanVars, runVars, records>>

ExtractVulnerabilities ==
    /\ findings = NoFindings
    /\ records.kind = "Vulnerability"
    /\ findings' = [first |-> TrivyVulnIssue(records.result, records.first),
                    second |-> TrivyVulnIssue(records.result, records.second)]
    /\ UNCHANGED <<pipelineVars, scoreVars, scanVars, runVars, records>>

ExtractMisconfigurations ==
    /\ findings = NoFindings
    /\ records.kind = "Misconfiguration"
    /\ findings' = [first |-> TrivyMisconfigIssue(records.result, records.first),
                    second |-> TrivyMisconfigIssue(records.result, records.second)]
    /\ UNCHANGED <<pipelineVars, scoreVars, scanVars, runVars, records>>

ExtractNext ==
    \/ ExtractTrivySecrets \/ ExtractTruffleHogSecrets
    \/ ExtractSemgrep \/ ExtractVulnerabilities \/ ExtractMisconfigurations

SpecExtract == ExtractInit /\ [][ExtractNext]_vars

\* ================================================================= claims
TallySums(t) == t.total = t.critical + t.high + t.medium + t.low + t.info

FindingsOf(tool) == SelectSeq(issues_found, LAMBDA f : f.tool = tool)

Extracting == pc \in {"semgrep", "trivy", "trufflehog"}

\* C1: after any sequence of raw records the global tally and each per-tool
\* tally satisfy total = critical + high + medium + low + info.
C1_TallySums ==
    /\ TallySums(stats)
    /\ \A t \in Tools : TallySums(tool_stats[t])

\* C2: every finding appended has one of the five canonical severities, and a
\* Semgrep / Trivy record (secrets excepted) whose raw severity is missing or
\* outside the tool's vocabulary yields severity INFO.
C2_CanonicalSeverity ==
    /\ \A i \in 1..Len(issues_found) : issues_found[i].severity \in Severities
    /\ pc = "semgrep" =>
          \A i \in 1..Len(issues_found) :
             Upper(Get(semgrep_json.results[i], "severity", "INFO"))
                \notin {"ERROR", "WARNING", "INFO"}
             => issues_found[i].severity = "INFO"
    /\ pc = "trivy" =>
          \A i \in 1..Len(FindingsOf("Trivy")) :
             LET item == TrivyWork(trivy_json.Results)[i]
             IN (/\ item.sub # "Secrets"
                 /\ Upper(Get(item.rec, "Severity", Absent))
                       \notin {"CRITICAL", "HIGH", "MEDIUM", "LOW"})
                => FindingsOf("Trivy")[i].severity = "INFO"

\* C3: every finding that represents a secret (TruffleHog, or Trivy's Secrets
\* sub-list) has severity CRITICAL or HIGH, whatever the raw record carries.
C3_SecretAtLeastHigh ==
    \A i \in 1..Len(issues_found) :
       issues_found[i].type = "Secret"
       => issues_found[i].severity \in {"CRITICAL", "HIGH"}

\* What one tool's artifact yields when it is extracted on its own: the
\* issues of its records up to the first record that raises.
RECURSIVE SemgrepSolo(_)
SemgrepSolo(results) ==
    IF results = <<>> \/ IsBad(Head(results)) THEN <<>>
    ELSE <<SemgrepIssue(Head(results))>> \o SemgrepSolo(Tail(results))

RECURSIVE TrivySolo(_)
TrivySolo(items) ==
    IF items = <<>> \/ TrivyRaises(Head(items)) THEN <<>>
    ELSE <<TrivyIssue(Head(items))>> \o TrivySolo(Tail(items))

RECURSIVE TruffleHogSolo(_)
TruffleHogSolo(secrets) ==
    IF secrets = <<>> \/ IsBad(Head(secrets)) THEN <<>>
    ELSE <<TruffleHogIssue(Head(secrets))>> \o TruffleHogSolo(Tail(secrets))

SoloIssues(tool) ==
    CASE tool = "Semgrep" ->
            IF semgrep_json.shape = "object" THEN SemgrepSolo(semgrep_json.results)
            ELSE <<>>
      [] tool = "Trivy" ->
            IF trivy_json.shape = "object" THEN TrivySolo(TrivyWork(trivy_json.Results))
            ELSE <<>>
      [] OTHER ->
            IF trufflehog_json.shape = "object"
            THEN TruffleHogSolo(trufflehog_json.secrets)
            ELSE <<>>

RECURSIVE SoloTally(_)
SoloTally(issues) ==
    IF issues = <<>> THEN ZeroTally
    ELSE CountSeverity(SoloTally(Tail(issues)), Head(issues).severity)

\* The artifact exists and is unparsable, of the wrong top-level shape, or
\* holds a record on which extraction raises.
Malformed(tool) ==
    CASE tool = "Semgrep" ->
            \/ semgrep_json.shape \in {"unparsable", "wrongshape"}
            \/ HasBad(semgrep_json.results)
      [] tool = "Trivy" ->
            \/ trivy_json.shape \in {"unparsable", "wrongshape"}
            \/ \E i \in 1..Len(TrivyWork(trivy_json.Results)) :
                  TrivyRaises(TrivyWork(trivy_json.Results)[i])
      [] OTHER ->
            \/ trufflehog_json.shape \in {"unparsable", "array"}
            \/ HasBad(trufflehog_json.secrets)

\* C4: when one tool's artifact is malformed, the findings and the tally of
\* each of the other two tools are, once extraction has ended, exactly what
\* that tool's artifact yields on its own (in sorted order after the sort);
\* whichever tool is the malformed one.
C4_MalformedIsolated ==
    (~Extracting /\ pc # "idle") =>
       \A bad \in Tools : Malformed(bad) =>
          \A t \in Tools \ {bad} :
             /\ FindingsOf(t) = IF pc = "sort" THEN SoloIssues(t)
                                ELSE SortIssues(SoloIssues(t))
             /\ tool_stats[t] = SoloTally(SoloIssues(t))

C4_Witness ==
    /\ pc = "done"
    /\ semgrep_json.shape = "unparsable"
    /\ Len(FindingsOf("Trivy")) = 1
    /\ Len(FindingsOf("TruffleHog")) = 1
    /\ Len(issues_found) = 2

\* C5: every run ends with summary.json written, whatever the artifacts are
\* and whether the rendering library is available, missing or failing.
C5_SummaryAlwaysWritten ==
    pc \in {"done", "crashed"} => summary # NoSummary

SummaryFields ==
    {"total_findings", "critical", "high", "medium", "low", "info",
     "risk_level", "risk_score"}

\* C6: a written summary carries the eight fields total_findings, critical,
\* high, medium, low, info, risk_level and risk_score under those names.
C6_SummaryFields ==
    summary # NoSummary => SummaryFields \subseteq DOMAIN summary

Weighted(t) == 4 * t.critical + 2 * t.high + t.medium

LevelRank(level) ==
    CASE level = "LOW" -> 0
      [] level = "MEDIUM" -> 1
      [] level = "HIGH" -> 2
      [] level = "CRITICAL" -> 3

\* C7 as claimed: in both variants the risk score equals
\* (critical * 4 + high * 2 + medium) / 10 (30 CRITICAL gives 12.0).
C7_ScoreFormulaBoth ==
    scored # NoResult =>
       /\ scored.A.score = Weighted(tally)
       /\ scored.B.score = Weighted(tally)

\* C7 as amended: Variant A's score equals (critical * 4 + high * 2 + medium)
\* / 10 and Variant B's equals the same value capped at 10.0; neither depends
\* on the low or info counts; 10 CRITICAL gives 4.0 in both, 30 CRITICAL
\* gives 12.0 in Variant A and 10.0 in Variant B.
C7_ScoreFormula ==
    scored # NoResult =>
       /\ scored.A.score = Weighted(tally)
       /\ scored.B.score = IF Weighted(tally) <= 100 THEN Weighted(tally) ELSE 100
       /\ \A n \in {10, 30} :
             (otherScored # NoResult /\ other.critical = n) =>
                /\ otherScored.A.score = 4 * n
                /\ otherScored.B.score = IF n = 10 THEN 40 ELSE 100

C7_Witness ==
    /\ scored # NoResult
    /\ tally.critical = 30 /\ tally.high = 0 /\ tally.medium = 0
    /\ tally.low = 1
    /\ scored.A.score = 120
    /\ scored.B.score = 100
    /\ other.critical = 10
    /\ otherScored.B.score = 40

\* C8: in each variant two tallies with equal reported scores get the same
\* level, and the tally with the higher reported score never gets the lower
\* level (LOW < MEDIUM < HIGH < CRITICAL).
C8_LevelMonotone ==
    (scored # NoResult /\ otherScored # NoResult) =>
       \A v \in {"A", "B"} :
          /\ scored[v].score = otherScored[v].score
                => scored[v].level = otherScored[v].level
          /\ scored[v].score > otherScored[v].score
                => LevelRank(scored[v].level) >= LevelRank(otherScored[v].level)
          /\ scored[v].score < otherScored[v].score
                => LevelRank(scored[v].level) <= LevelRank(otherScored[v].level)

C8_Witness ==
    /\ scored # NoResult
    /\ tally.critical = 0 /\ tally.high = 2 /\ tally.medium = 4
    /\ other.critical = 2
    /\ scored.A.score = otherScored.A.score
    /\ scored.B.score = otherScored.B.score

\* C9: the risk score is never negative, and counting one more critical, high
\* or medium finding with the other counts fixed never lowers it, in both
\* variants (Variant B's cap and zero-total branch included).
C9_ScoreMonotone ==
    [][/\ scored' # NoResult =>
             (scored'.A.score >= 0 /\ scored'.B.score >= 0)
       /\ (/\ scored # NoResult
           /\ scored' # NoResult
           /\ \E f \in {"critical", "high", "medium"} :
                 tally' = [tally EXCEPT ![f] = @ + 1, !.total = @ + 1])
          => (/\ scored'.A.score >= scored.A.score
              /\ scored'.B.score >= scored.B.score)]_vars

C9_Witness ==
    /\ scored # NoResult
    /\ tally.critical = 25 /\ tally.high = 0 /\ tally.medium = 1
    /\ scored.A.score = 101
    /\ scored.B.score = 100

C11_VariantBThresholds ==
    scored # NoResult =>
       LET capped == IF Weighted(tally) <= 100 THEN Weighted(tally) ELSE 100
       IN /\ scored.B.level = "CRITICAL" <=> capped >= 70
          /\ scored.B.level = "HIGH" <=> (capped >= 50 /\ capped < 70)
          /\ scored.B.level = "MEDIUM" <=> (capped >= 30 /\ capped < 50)
          /\ scored.B.level = "LOW" <=> capped < 30
          /\ scored.B.score = capped
          /\ scored.B.score >= 0 /\ scored.B.score <= 100
          /\ FullSummary(tally, scored.B.level, RiskScoreFull(tally)).risk_score
                \in 0..100

C11_Witness ==
    /\ scored # NoResult
    /\ tally.critical = 20 /\ tally.high = 3 /\ tally.medium = 5
    /\ Weighted(tally) = 91
    /\ scored.A.level = "HIGH"
    /\ scored.B.level = "CRITICAL"
    /\ otherScored.B.score = 100
    /\ other.critical = 30

\* C12: when none of the three artifacts exists the run raises no error,
\* every tally is zero and the summary it writes reports total_findings = 0,
\* risk_level LOW and risk_score 0.0.
C12_AllAbsent ==
    (/\ pc # "idle"
     /\ semgrep_json.shape = "absent"
     /\ trivy_json.shape = "absent"
     /\ trufflehog_json.shape = "absent")
    => /\ pc # "crashed"
       /\ stats = ZeroTally
       /\ \A t \in Tools : tool_stats[t] = ZeroTally
       /\ pc = "done" =>
             /\ "total_findings" \in DOMAIN summary
             /\ summary.total_findings = 0
             /\ summary.risk_level = "LOW"
             /\ summary.risk_score = 0

\* C19: for every tally the level generate_report.py computes is one the
\* Risk Level Thresholds it prints give for the score (below 3.0 LOW, 3.0 to
\* 5.0 MEDIUM, 5.0 to 7.0 HIGH, 7.0 and above CRITICAL).
C19_LevelAsPrinted ==
    scored # NoResult => scored.A.level \in MethodologyLevels(Weighted(tally))

\* C15: each Semgrep record's raw severity is normalised, whatever its case,
\* as ERROR to HIGH, WARNING to MEDIUM and any other or missing token to INFO,
\* and the finding is counted in exactly that bucket.
SemgrepClaimedSeverity(result) ==
    LET raw == Upper(Get(result, "severity", Absent))
    IN IF raw = "ERROR" THEN "HIGH"
       ELSE IF raw = "WARNING" THEN "MEDIUM"
       ELSE "INFO"

C17_ArrayOfSecrets ==
    (/\ pc \in {"sort", "score", "render", "summary", "done", "crashed"}
     /\ trufflehog_json.shape = "array"
     /\ ~HasBad(trufflehog_json.secrets))
    => /\ Len(FindingsOf("TruffleHog")) = Len(trufflehog_json.secrets)
       /\ tool_stats["TruffleHog"].critical = Len(trufflehog_json.secrets)
       /\ tool_stats["TruffleHog"].total = Len(trufflehog_json.secrets)

\* C13: the sort leaves a permutation of the extracted findings in which no
\* finding of a lower-ranked severity precedes one of a higher-ranked severity
\* (CRITICAL = 0 < HIGH < MEDIUM < LOW < INFO, any other severity behind
\* them), within one severity the tools are in the order of their names, and
\* within one severity and tool the files are in lexicographic order.
ClaimedRank(severity) ==
    CASE severity = "CRITICAL" -> 0
      [] severity = "HIGH" -> 1
      [] severity = "MEDIUM" -> 2
      [] severity = "LOW" -> 3
      [] severity = "INFO" -> 4
      [] OTHER -> 5

Occurrences(seq, x) == Cardinality({i \in 1..Len(seq) : seq[i] = x})

IsPermutation(a, b) ==
    /\ Len(a) = Len(b)
    /\ \A i \in 1..Len(a) : Occurrences(a, a[i]) = Occurrences(b, a[i])

InClaimedOrder(x, y) ==
    /\ ClaimedRank(x.severity) <= ClaimedRank(y.severity)
    /\ ClaimedRank(x.severity) = ClaimedRank(y.severity) =>
          /\ x.tool # y.tool =>
                <<x.tool, y.tool>> \in {<<"Semgrep", "Trivy">>,
                                        <<"Semgrep", "TruffleHog">>,
                                        <<"Trivy", "TruffleHog">>}
          /\ x.tool = y.tool => ~TextLess(y.file, x.file)

C13_SortedPermutation ==
    [][pc = "sort" =>
          /\ IsPermutation(issues_found', issues_found)
          /\ \A i \in 1..Len(issues_found') : \A j \in (i + 1)..Len(issues_found') :
                InClaimedOrder(issues_found'[i], issues_found'[j])]_vars

C13_Witness ==
    /\ pc = "score"
    /\ Len(semgrep_json.results) = 2
    /\ ~HasBad(semgrep_json.results)
    /\ semgrep_json.results[1].path = <<98>>
    /\ semgrep_json.results[2].path = <<97>>
    /\ Len(issues_found) = 2
    /\ issues_found[1].severity = issues_found[2].severity
    /\ issues_found[1].file = <<97>>
    /\ issues_found[2].file = <<98>>

\* C14: sorting a sorted sequence leaves it unchanged, and findings with equal
\* (severity, tool, file) keep the relative order in which they were
\* extracted.
SameKey(x, y) ==
    x.severity = y.severity /\ x.tool = y.tool /\ x.file = y.file

C14_SortStable ==
    [][pc = "sort" =>
          /\ SortIssues(issues_found') = issues_found'
          /\ SortIssues(SortIssues(issues_found)) = SortIssues(issues_found)
          /\ \A i \in 1..Len(issues_found) :
                SelectSeq(issues_found', LAMBDA f : SameKey(f, issues_found[i]))
                   = SelectSeq(issues_found, LAMBDA f : SameKey(f, issues_found[i]))]_vars

C14_Witness ==
    /\ pc = "score"
    /\ Len(issues_found) = 2
    /\ SameKey(issues_found[1], issues_found[2])
    /\ issues_found[1].type = "Secret"
    /\ issues_found[2].type = "Vulnerability"

\* C16: every record of a Trivy target's Vulnerabilities, Misconfigurations
\* and Secrets is counted once: the Trivy total equals the sum over the
\* targets of the sizes of the three sub-lists.
RECURSIVE SubListSizes(_)
SubListSizes(results) ==
    IF results = <<>> THEN 0
    ELSE Len(GetList(Head(results), "Vulnerabilities"))
         + Len(GetList(Head(results), "Misconfigurations"))
         + Len(GetList(Head(results), "Secrets"))
         + SubListSizes(Tail(results))

WellFormed(artifact) ==
    /\ artifact.shape = "object"
    /\ ~HasBad(artifact.Results)
    /\ \A i \in 1..Len(TrivyWork(artifact.Results)) :
          ~TrivyRaises(TrivyWork(artifact.Results)[i])

C16_TrivySubLists ==
    scanner_summary # NoSummary =>
       /\ WellFormed(trivy_fs_json) =>
             /\ "trivy-fs" \in DOMAIN scanner_summary.by_tool
             /\ scanner_summary.by_tool["trivy-fs"] = SubListSizes(trivy_fs_json.Results)
       /\ WellFormed(trivy_pkg_json) =>
             /\ "trivy-pkg" \in DOMAIN scanner_summary.by_tool
             /\ scanner_summary.by_tool["trivy-pkg"] = SubListSizes(trivy_pkg_json.Results)

\* C18: two secret records that differ only in the raw secret (TruffleHog Raw,
\* Trivy Match) give identical findings, and the details are the verification
\* flag (TruffleHog) or the rule id (Trivy) and nothing else.
RawField(kind) == IF kind = "TruffleHog" THEN "Raw" ELSE "Match"

DifferOnlyInSecret ==
    [records.first EXCEPT ![RawField(records.kind)] = records.second[RawField(records.kind)]]
       = records.second

C18_NoSecretInFinding ==
    (findings # NoFindings /\ records.kind \in {"Trivy", "TruffleHog"}) =>
       /\ DifferOnlyInSecret => findings.first = findings.second
       /\ \A side \in {"first", "second"} :
             findings[side].details =
                IF records.kind = "TruffleHog"
                THEN TxtVerified \o (IF records[side].Verified THEN TxtTrue ELSE TxtFalse)
                ELSE IF records[side].RuleID = NoText THEN TxtSecretHidden
                     ELSE records[side].RuleID

C18_Witness ==
    /\ findings # NoFindings
    /\ records.kind = "TruffleHog"
    /\ DifferOnlyInSecret
    /\ records.first.Raw = <<115>>
    /\ records.second.Raw = <<120>>
    /\ records.first.Verified
    /\ findings.first = findings.second
    /\ findings.first.details = TxtVerified \o TxtTrue

\* C20: the summary calculate_summary writes has total_findings = critical +
\* high + medium + low + info, whichever of the Semgrep, Trivy (fs and pkg)
\* and TruffleHog artifacts are present, absent or partly unparsable.
C20_ScannerTotal ==
    scanner_summary # NoSummary =>
       scanner_summary.total_findings =
          scanner_summary.critical + scanner_summary.high + scanner_summary.medium
          + scanner_summary.low + scanner_summary.info

C20_Witness ==
    /\ scanner_summary # NoSummary
    /\ semgrep_json.shape = "object"
    /\ Len(semgrep_json.results) = 2
    /\ ~IsBad(semgrep_json.results[1])
    /\ IsBad(semgrep_json.results[2])
    /\ trivy_fs_json.shape = "unparsable"
    /\ trivy_pkg_json.shape = "absent"
    /\ trufflehog_json.shape = "absent"
    /\ scanner_summary.total_findings = 1

\* C21: inside one tool's artifact a malformed record alone is skipped: every
\* well-formed record of the artifact, those behind a malformed one included,
\* yields its finding; only an unparsable document yields none.
WellFormedCount(seq) == Cardinality({i \in 1..Len(seq) : ~IsBad(seq[i])})

C21_PerRecordRecovery ==
    /\ (pc \notin {"idle", "semgrep"} /\ semgrep_json.shape = "object") =>
          Len(FindingsOf("Semgrep")) = WellFormedCount(semgrep_json.results)
    /\ (pc \notin {"idle", "semgrep", "trivy"} /\ trivy_json.shape = "object") =>
          Len(FindingsOf("Trivy")) =
             Cardinality({i \in 1..Len(TrivyWork(trivy_json.Results)) :
                            ~TrivyRaises(TrivyWork(trivy_json.Results)[i])})
    /\ (pc \notin {"idle", "semgrep", "trivy", "trufflehog"}
        /\ trufflehog_json.shape = "object") =>
          Len(FindingsOf("TruffleHog")) = WellFormedCount(trufflehog_json.secrets)

\* C26: after every record and at the end of extraction stats['total'] is the
\* number of findings in issues_found, whatever token a record carries.
C26_TotalIsLength ==
    pc # "idle" => stats.total = Len(issues_found)

\* C28: for every tally Variant B's level is at least as severe as Variant
\* A's (LOW < MEDIUM < HIGH < CRITICAL), and both give LOW to the same tallies.
C28_VariantBAtLeastA ==
    scored # NoResult =>
       /\ LevelRank(scored.B.level) >= LevelRank(scored.A.level)
       /\ scored.A.level = "LOW" <=> scored.B.level = "LOW"

C28_Witness ==
    /\ scored # NoResult
    /\ Weighted(tally) = 60
    /\ scored.A.level = "MEDIUM"
    /\ scored.B.level = "HIGH"
    /\ otherScored # NoResult
    /\ otherScored.A.level = "LOW"
    /\ otherScored.B.level = "LOW"
    /\ other.critical = 7

\* C29: the risk score a report shows on its '/10' scale never exceeds 10, in
\* both generators.
C29_DisplayedScoreAtMostTen ==
    scored # NoResult =>
       /\ scored.A.score <= 100
       /\ scored.B.score <= 100

\* C30: in the summary calculate_summary writes the counts of by_tool sum to
\* total_findings, also when a tool's records fail part-way.
RECURSIVE SumOf(_, _)
SumOf(f, keys) ==
    IF keys = {} THEN 0
    ELSE LET k == CHOOSE x \in keys : TRUE
         IN f[k] + SumOf(f, keys \ {k})

C30_ByToolSumsToTotal ==
    scanner_summary # NoSummary =>
       SumOf(scanner_summary.by_tool, DOMAIN scanner_summary.by_tool)
          = scanner_summary.total_findings

\* C23: every percentage of the total is computed over a denominator of at
\* least 1, in both generators, for every tally, a zero total and a summary
\* without its total field included: no division by zero.
WithoutTotal(summary_) ==
    [k \in DOMAIN summary_ \ {"total_findings"} |-> summary_[k]]

NoZeroDivision(table) ==
    /\ table.denominator >= 1
    /\ \A k \in DOMAIN table.rows : table.rows[k] # ZeroDivisionError

C23_DenominatorAtLeastOne ==
    scored # NoResult =>
       /\ NoZeroDivision(scored.breakdown.A)
       /\ NoZeroDivision(scored.breakdown.B)
       /\ NoZeroDivision(FindingsBreakdown(WithoutTotal(SummaryJson(tally))))

C23_Witness ==
    /\ scored # NoResult
    /\ tally = ZeroTally
    /\ scored.breakdown.A.denominator = 1
    /\ scored.breakdown.B.denominator = 1
    /\ scored.breakdown.A.rows["critical"] = 0
    /\ FindingsBreakdown(WithoutTotal(SummaryJson(tally))).denominator = 1

\* C25: the appendix lists every finding: each finding counted in
\* stats['total'] is a row of exactly one of the five per-severity tables, so
\* the rows of the appendix number stats['total'].
RECURSIVE AppendixRowCount(_, _)
AppendixRowCount(issues, severities) ==
    IF severities = <<>> THEN 0
    ELSE Len(AppendixRows(issues, Head(severities)))
         + AppendixRowCount(issues, Tail(severities))

C25_AppendixComplete ==
    pdf = "full" =>
       /\ AppendixRowCount(issues_found, AppendixSeverities) = stats.total
       /\ \A i \in 1..Len(issues_found) :
             Cardinality({k \in 1..Len(AppendixSeverities) :
                            issues_found[i].severity = AppendixSeverities[k]}) = 1

\* C27: over the same Semgrep, Trivy and TruffleHog artifacts the tally that
\* calculate_summary persists and the tally the report generator persists
\* agree in critical, high, medium, low, info and in the total.
C27_TalliesAgree ==
    (pc = "done" /\ scanner_summary # NoSummary) =>
       /\ summary.critical = scanner_summary.critical
       /\ summary.high = scanner_summary.high
       /\ summary.medium = scanner_summary.medium
       /\ summary.low = scanner_summary.low
       /\ summary.info = scanner_summary.info
       /\ summary.total = scanner_summary.total_findings

\* C22: the details of every finding of every extractor are at most 200
\* characters long, and a raw text longer than that yields exactly its first
\* 200 characters.
RawDetails(kind, rec) ==
    CASE kind = "Semgrep" -> GetText(rec, "message", TxtNoDescription)
      [] kind = "Vulnerability" ->
            TxtVersion \o GetText(rec, "InstalledVersion", TxtQuestion)
            \o TxtFix \o GetText(rec, "FixedVersion", TxtNoFix)
      [] kind = "Misconfiguration" -> GetText(rec, "Description", TxtNoDescription)
      [] kind = "Trivy" -> GetText(rec, "RuleID", TxtSecretHidden)
      [] kind = "TruffleHog" -> TxtVerified \o FormatBool(rec.Verified)

C22_DetailsBounded ==
    findings # NoFindings =>
       \A side \in {"first", "second"} :
          /\ Len(findings[side].details) <= 200
          /\ Len(RawDetails(records.kind, records[side])) > 200 =>
                findings[side].details =
                   SubSeq(RawDetails(records.kind, records[side]), 1, 200)

\* C24: run_all_scans calls the scans one at a time in list order, each scan
\* of the list exactly once even when an earlier one failed; calculate_summary
\* starts only when the last scan has returned, and the summary is calculated
\* whatever the scans returned.
IsPrefix(a, b) == Len(a) <= Len(b) /\ a = SubSeq(b, 1, Len(a))

ClaimedScans(app) ==
    IF app \in {"angular", "gulp"}
    THEN <<"run_semgrep", "run_trivy_fs", "run_trivy_pkg", "run_trufflehog",
           "run_npm_audit">>
    ELSE <<"run_semgrep", "run_trivy_fs", "run_trivy_pkg", "run_trufflehog">>

====
